---------------------------- MODULE Spec2Model ----------------------------
(***************************************************************************)
(* Release-kickoff status tracking: the ReleaseEvents table, the event     *)
(* ingestion handler StatusAPI.post, the status query StatusAPI.get and    *)
(* the status aggregation getStatus with its seven stage reducers          *)
(* (kickoff/model.py, kickoff/views/status.py).                            *)
(*                                                                         *)
(* Numbers.  The code is Python 2 (cmp, sorted(cmp=...)).  A progress      *)
(* value of the status report is modelled in hundredths (1.00 is 100).     *)
(* A platform's progress is accumulated as the exact fraction              *)
(* <<numerator, denominator>> of the float sum of 1.00/chunkTotal and      *)
(* rounded once, as the code rounds once; within the bounds used no sum    *)
(* lies on a rounding tie (a tie needs a denominator divisible by 8), so   *)
(* the float sum and the exact sum round alike.                            *)
(*                                                                         *)
(* Exceptions.  A Python function either returns a value v, modelled       *)
(* Ok(v), or raises, modelled Raise(exception name).                       *)
(***************************************************************************)
EXTENDS Integers, Sequences, FiniteSets, TLC

VARIABLES
    events,     \* the release_events table: its rows, in the order a query yields them
    releases,   \* the release tables: release name -> the enUSPlatforms JSON list
    resp,       \* resp[p]: the response client p received last
    pc,         \* pc[p]: where client p's POST stands ("idle" or "commit")
    req         \* req[p]: the ReleaseEvents object p's POST holds between check and commit

vars == <<events, releases, resp, pc, req>>

(***************************************************************************)
(* Bounds and the values requests are drawn from.                          *)
(***************************************************************************)
MaxChunkTotal == 2

None == "None"                          \* Python's None, SQL NULL

R1 == "firefox-1.0-build1"              \* a release with a release record
R2 == "fennec-2.0-build1"               \* a release name with no release record
DeclaredPlatforms == <<"linux", "win32">>

Procs == {1, 2}
\* The one client of the sequential specifications.
Client == CHOOSE p \in Procs : \A q \in Procs : p <= q

\* 'complete' in event_name, 'postrelease' in event_name: substring tests of
\* the event names used, by table.
CompleteNames == {"e_complete", "postrelease_complete"}
PostreleaseNames == {"postrelease", "postrelease_complete"}
ContainsComplete(event_name) == event_name \in CompleteNames
ContainsPostrelease(event_name) == event_name \in PostreleaseNames

RequiredFields ==
    {"name", "sent", "event_name", "platform", "results", "chunkNum",
     "chunkTotal", "group"}

\* A request form: the field values, and the required fields it leaves out.
Form(name, event_name, group, platform, results, chunkTotal, absent) ==
    [name |-> name, sent |-> "2015-01-01 00:00:00", event_name |-> event_name,
     platform |-> platform, results |-> results,
     chunkNum |-> IF chunkTotal = 0 THEN 0 ELSE 1, chunkTotal |-> chunkTotal,
     group |-> group, absent |-> absent]

Range(s) == {s[i] : i \in DOMAIN s}

Raise(exc) == [kind |-> "raise", exc |-> exc]
Ok(val) == [kind |-> "ok", val |-> val]

(***************************************************************************)
(* ReleaseEvents (model.py 203-240).                                       *)
(***************************************************************************)
\* ReleaseEvents.__init__: the row object of a form's fields.
ReleaseEvents(name, sent, event_name, platform, results, chunkNum, chunkTotal, group) ==
    [name |-> name, sent |-> sent, event_name |-> event_name,
     platform |-> platform, results |-> results, chunkNum |-> chunkNum,
     chunkTotal |-> chunkTotal, group |-> group]

\* ReleaseEvents.createFromRequest: form['x'] raises KeyError for a missing x.
createFromRequest(form) ==
    IF form.absent \cap RequiredFields # {}
    THEN Raise("KeyError")
    ELSE Ok(ReleaseEvents(form.name, form.sent, form.event_name, form.platform,
                          form.results, form.chunkNum, form.chunkTotal, form.group))

\* ReleaseEvents.toDict: str() of every column; the string columns (None
\* included, which str() turns into 'None') stay as they are written here.
toDict(row) ==
    [name |-> row.name, sent |-> row.sent, event_name |-> row.event_name,
     platform |-> row.platform, results |-> ToString(row.results),
     chunkNum |-> ToString(row.chunkNum),
     chunkTotal |-> ToString(row.chunkTotal), group |-> row.group]

\* ReleaseEvents.query.filter_by(name=name): the rows of a release.
QueryName(rows, name) == SelectSeq(rows, LAMBDA r : r.name = name)

\* The group filter without the release name.
QueryGroupAnyRelease(rows, name, group) ==
    SelectSeq(rows, LAMBDA r : r.group = group)

\* ReleaseEvents.query.filter_by(name=name, group=group).
QueryGroup(rows, name, group) ==
    SelectSeq(rows, LAMBDA r : r.name = name /\ r.group = group)

\* The existence query of StatusAPI.post: a row with this name and event_name.
ExistsNameTypo(rows, name, event_name) ==
    \E i \in DOMAIN rows : rows[i].name = name /\ rows[i].event_name = name

Exists(rows, name, event_name) ==
    \E i \in DOMAIN rows : rows[i].name = name /\ rows[i].event_name = event_name

\* The table's primary key (name, event_name): what the database checks at commit.
PrimaryKeyTaken(rows, row) ==
    \E i \in DOMAIN rows :
        rows[i].name = row.name /\ rows[i].event_name = row.event_name

(***************************************************************************)
(* getEnUSPlatforms (model.py 410-415).  Both release names used have a    *)
(* product in release_tables; a name without a release record makes        *)
(* release[0] raise IndexError.                                            *)
(***************************************************************************)
getEnUSPlatforms(rels, name) ==
    IF name \notin DOMAIN rels
    THEN Raise("IndexError")
    ELSE Ok(rels[name])

(***************************************************************************)
(* Arithmetic of the reducers.                                             *)
(***************************************************************************)
\* round(n/d, 2) in hundredths, n >= 0, d > 0 (Python 2 rounds a tie away from zero).
Round2(n, d) == (200 * n + d) \div (2 * d)

\* a/b + 1.00/t as a fraction.
AddFraction(f, t) == <<f[1] * t + f[2], f[2] * t>>

RECURSIVE SumOver(_, _, _)
\* The sum of entry[field] over the platforms: the loops "total += ..", "num += ..".
SumOver(platforms, keys, field) ==
    IF keys = {} THEN 0
    ELSE LET k == CHOOSE x \in keys : TRUE
         IN  platforms[k].chunks[field] + SumOver(platforms, keys \ {k}, field)

\* The entry every declared platform starts with.
ZeroEntry == [complete |-> FALSE, chunks |-> [num |-> 0, total |-> 0], progress |-> 0]

\* The entry a chunk fold starts with: progress is the fraction 0/1 until rounded.
FoldEntry == [complete |-> FALSE, chunks |-> [num |-> 0, total |-> 0], progress |-> <<0, 1>>]

\* "for platform in getEnUSPlatforms(name): platforms[platform] = {...}".
InitPlatformsSkipLast(plats, entry) ==
    [p \in {plats[i] : i \in 1..(Len(plats) - 1)} |-> entry]

InitPlatforms(plats, entry) == [p \in Range(plats) |-> entry]

\* "entry['progress'] = round(entry['progress'], 2)" over the platforms.
RoundPlatforms(platforms) ==
    [p \in DOMAIN platforms |->
        [platforms[p] EXCEPT !.progress = Round2(@[1], @[2])]]

(***************************************************************************)
(* The boolean reducers tagStatus, updateStatus, releasetestStatus         *)
(* (model.py 269-277, 342-350, 353-361): "if row.name" holds of every row, *)
(* the name column being the non-empty release name.                       *)
(***************************************************************************)
SimpleStatus(rows) ==
    IF \E i \in DOMAIN rows : rows[i].name # ""
    THEN [complete |-> TRUE, progress |-> 100]
    ELSE [complete |-> FALSE, progress |-> 0]

tagStatus(rows, name) == Ok(SimpleStatus(QueryGroup(rows, name, "tag")))

updateStatus(rows, name) == Ok(SimpleStatus(QueryGroup(rows, name, "update")))

releasetestStatus(rows, name) ==
    Ok(SimpleStatus(QueryGroup(rows, name, "releasetest")))

(***************************************************************************)
(* buildStatus (model.py 280-307).                                         *)
(***************************************************************************)
RECURSIVE BuildLoopChunked(_, _)
\* The build loop counting chunks as the repack loop does.
BuildLoopChunked(platforms, rows) ==
    IF rows = <<>> THEN Ok(platforms)
    ELSE LET build == Head(rows)
         IN  IF build.platform \notin DOMAIN platforms
             THEN Raise("KeyError")
             ELSE BuildLoopChunked(
                    [platforms EXCEPT ![build.platform] =
                        [complete |-> (@.chunks.num + 1 = build.chunkTotal),
                         chunks |-> [num |-> @.chunks.num + 1,
                                     total |-> build.chunkTotal],
                         progress |-> IF @.chunks.num + 1 = build.chunkTotal
                                      THEN 100 ELSE 0]],
                    Tail(rows))

RECURSIVE BuildLoop(_, _)
\* Lines 287-291; platforms[build.platform] raises KeyError for an undeclared platform.
BuildLoop(platforms, rows) ==
    IF rows = <<>> THEN Ok(platforms)
    ELSE LET build == Head(rows)
         IN  IF build.platform \notin DOMAIN platforms
             THEN Raise("KeyError")
             ELSE BuildLoop(
                    [platforms EXCEPT ![build.platform] =
                        [complete |-> TRUE, chunks |-> [num |-> 1, total |-> 1],
                         progress |-> 100]],
                    Tail(rows))

buildStatus(rows, rels, name) ==
    LET plats == getEnUSPlatforms(rels, name)
    IN  IF plats.kind = "raise" THEN plats
        ELSE
        LET loop == BuildLoop(InitPlatforms(plats.val, ZeroEntry),
                              QueryGroup(rows, name, "build"))
        IN  IF loop.kind = "raise" THEN loop
            ELSE
            LET platforms == loop.val
                total == SumOver(platforms, DOMAIN platforms, "total")
                num == SumOver(platforms, DOMAIN platforms, "num")
                \* num / total of two ints: Python 2's floor division
                progress == IF total = 0 THEN 0 ELSE 100 * (num \div total)
            IN  Ok([complete |-> (progress = 100), platforms |-> platforms,
                    progress |-> progress])

(***************************************************************************)
(* repackStatus (model.py 310-339).                                        *)
(***************************************************************************)
\* Lines 318-320, one chunk event folded into its platform's entry.
RepackChunk(entry, chunkTotal) ==
    [entry EXCEPT !.chunks.total = chunkTotal,
                  !.chunks.num = @ + 1,
                  !.progress = AddFraction(@, chunkTotal)]

RECURSIVE RepackLoop(_, _)
\* Lines 316-322: platforms[repack.platform] raises KeyError for an undeclared
\* platform, 1.00/repack.chunkTotal raises ZeroDivisionError for a zero total.
RepackLoop(platforms, rows) ==
    IF rows = <<>> THEN Ok(platforms)
    ELSE LET repack == Head(rows)
         IN  IF repack.platform \notin DOMAIN platforms
             THEN Raise("KeyError")
             ELSE IF ~ContainsComplete(repack.event_name)
             THEN IF repack.chunkTotal = 0
                  THEN Raise("ZeroDivisionError")
                  ELSE RepackLoop(
                         [platforms EXCEPT ![repack.platform] =
                             RepackChunk(@, repack.chunkTotal)],
                         Tail(rows))
             ELSE RepackLoop(
                    [platforms EXCEPT ![repack.platform].complete = TRUE],
                    Tail(rows))

\* The stage ratio truncated, not rounded, to two decimals.
StageProgressTruncated(platforms) ==
    LET total == SumOver(platforms, DOMAIN platforms, "total")
        num == SumOver(platforms, DOMAIN platforms, "num")
    IN  IF total = 0 THEN 0 ELSE (100 * num) \div total

\* Lines 324-333: round(float(num) / float(total), 2), 0.00 on ZeroDivisionError.
StageProgress(platforms) ==
    LET total == SumOver(platforms, DOMAIN platforms, "total")
        num == SumOver(platforms, DOMAIN platforms, "num")
    IN  IF total = 0 THEN 0 ELSE Round2(num, total)

repackStatus(rows, rels, name) ==
    LET plats == getEnUSPlatforms(rels, name)
    IN  IF plats.kind = "raise" THEN plats
        ELSE
        LET loop == RepackLoop(InitPlatforms(plats.val, FoldEntry),
                               QueryGroup(rows, name, "repack"))
        IN  IF loop.kind = "raise" THEN loop
            ELSE
            LET progress == StageProgress(loop.val)
            IN  Ok([complete |-> (progress = 100),
                    platforms |-> RoundPlatforms(loop.val),
                    progress |-> progress])

(***************************************************************************)
(* releaseStatus (model.py 364-398).                                       *)
(***************************************************************************)
\* Lines 374-379: as a repack chunk, and complete once total == num.
UpdateVerifyChunk(entry, chunkTotal) ==
    LET e == RepackChunk(entry, chunkTotal)
    IN  IF e.chunks.total = e.chunks.num
        THEN [e EXCEPT !.complete = TRUE]
        ELSE e

RECURSIVE UpdateVerifyLoop(_, _)
\* Lines 372-381.
UpdateVerifyLoop(platforms, rows) ==
    IF rows = <<>> THEN Ok(platforms)
    ELSE LET update_verify == Head(rows)
         IN  IF update_verify.platform \notin DOMAIN platforms
             THEN Raise("KeyError")
             ELSE IF ~ContainsComplete(update_verify.event_name)
             THEN IF update_verify.chunkTotal = 0
                  THEN Raise("ZeroDivisionError")
                  ELSE UpdateVerifyLoop(
                         [platforms EXCEPT ![update_verify.platform] =
                             UpdateVerifyChunk(@, update_verify.chunkTotal)],
                         Tail(rows))
             ELSE UpdateVerifyLoop(
                    [platforms EXCEPT ![update_verify.platform].complete = TRUE],
                    Tail(rows))

\* Lines 395-396: "if release_events.first(): data['complete'] = True".
ReleaseCompleteByProgress(rows, name, progress) == progress = 100

ReleaseComplete(rows, name, progress) == QueryGroup(rows, name, "release") # <<>>

releaseStatus(rows, rels, name) ==
    LET plats == getEnUSPlatforms(rels, name)
    IN  IF plats.kind = "raise" THEN plats
        ELSE
        LET loop == UpdateVerifyLoop(InitPlatforms(plats.val, FoldEntry),
                                     QueryGroup(rows, name, "update_verify"))
        IN  IF loop.kind = "raise" THEN loop
            ELSE
            LET progress == StageProgress(loop.val)
            IN  Ok([complete |-> ReleaseComplete(rows, name, progress),
                    platforms |-> RoundPlatforms(loop.val),
                    progress |-> progress])

(***************************************************************************)
(* postreleaseStatus (model.py 401-407).                                   *)
(***************************************************************************)
postreleaseStatus(rows, name) ==
    LET evs == QueryName(rows, name)
    IN  IF \E i \in DOMAIN evs : ContainsPostrelease(evs[i].event_name)
        THEN Ok([complete |-> TRUE, progress |-> 100])
        ELSE Ok([complete |-> FALSE, progress |-> 0])

(***************************************************************************)
(* getStatus (model.py 257-266).  The outcome is NotFound (Python's None), *)
(* a report, or the exception of a stage reducer, which getStatus lets     *)
(* through.                                                                *)
(***************************************************************************)
NotFound == [kind |-> "none"]

\* Line 258: "if not ReleaseEvents.query.filter_by(name=name).first()".
NoEventsAnyRelease(rows, name) == rows = <<>>

NoEvents(rows, name) == QueryName(rows, name) = <<>>

getStatus(rows, rels, name) ==
    IF NoEvents(rows, name) THEN NotFound
    ELSE
    LET tag == tagStatus(rows, name)
        build == buildStatus(rows, rels, name)
        repack == repackStatus(rows, rels, name)
        update == updateStatus(rows, name)
        releasetest == releasetestStatus(rows, name)
        release == releaseStatus(rows, rels, name)
        postrelease == postreleaseStatus(rows, name)
    IN  IF \/ tag.kind = "raise" \/ build.kind = "raise" \/ repack.kind = "raise"
           \/ update.kind = "raise" \/ releasetest.kind = "raise"
           \/ release.kind = "raise" \/ postrelease.kind = "raise"
        THEN [kind |-> "raise"]
        ELSE [kind |-> "report", tag |-> tag.val, build |-> build.val,
              repack |-> repack.val, update |-> update.val,
              releasetest |-> releasetest.val, release |-> release.val,
              postrelease |-> postrelease.val, name |-> name]

(***************************************************************************)
(* StatusAPI (views/status.py 22-75).  A response is its status code, what *)
(* it says, and for a GET its JSON body.                                   *)
(***************************************************************************)
NoResponse == [code |-> 0, kind |-> "none"]

\* Lines 41-67 of post: the ReleaseEvents object, or the response that ends the
\* request.  In the except clause releaseEventsUpdate is still the form, so
\* releaseEventsUpdate['event_name'] raises KeyError when that field is missing.
PostCheck(rows, form) ==
    LET created == createFromRequest(form)
    IN  IF created.kind = "raise"
        THEN IF "event_name" \in form.absent
             THEN [kind |-> "KeyError", code |-> 500]
             ELSE [kind |-> "input_failed", code |-> 400]
        ELSE IF Exists(rows, created.val.name, created.val.event_name)
        THEN [kind |-> "exists", code |-> 400, name |-> created.val.name,
              event_name |-> created.val.event_name]
        ELSE [kind |-> "proceed", row |-> created.val]

\* The commit as a merge keyed on event_name alone: a stored row of that
\* event_name, of any release, is replaced.
PostCommitMerge(rows, row) ==
    [rows |-> Append(SelectSeq(rows, LAMBDA r : r.event_name # row.event_name), row),
     resp |-> [kind |-> "added", code |-> 200, name |-> row.name,
               event_name |-> row.event_name]]

\* Lines 70-75 of post: db.session.add and commit.  The commit of a row whose
\* primary key is taken raises IntegrityError, which post does not catch.
PostCommit(rows, row) ==
    IF PrimaryKeyTaken(rows, row)
    THEN [rows |-> rows,
          resp |-> [kind |-> "IntegrityError", code |-> 500, name |-> row.name,
                    event_name |-> row.event_name]]
    ELSE [rows |-> Append(rows, row),
          resp |-> [kind |-> "added", code |-> 200, name |-> row.name,
                    event_name |-> row.event_name]]

\* StatusAPI.get, lines 24-30: the release's events and its status; an
\* exception of getStatus leaves the handler.
GetResponse(rows, rels, releaseName) ==
    LET found == QueryName(rows, releaseName)
        status == getStatus(rows, rels, releaseName)
    IN  IF status.kind = "raise"
        THEN [kind |-> "get_raise", code |-> 500, release |-> releaseName]
        ELSE [kind |-> "get", code |-> 200, release |-> releaseName,
              events |-> [i \in DOMAIN found |-> toDict(found[i])],
              status |-> status]

Init ==
    /\ events = <<>>
    /\ releases = [n \in {R1} |-> DeclaredPlatforms]
    /\ resp = [p \in Procs |-> NoResponse]
    /\ pc = [p \in Procs |-> "idle"]
    /\ req = [p \in Procs |-> None]

\* StatusAPI.post, the whole handler, run with no other request in between.
post(p, form) ==
    /\ pc[p] = "idle"
    /\ LET check == PostCheck(events, form)
       IN  IF check.kind = "proceed"
           THEN LET commit == PostCommit(events, check.row)
                IN  /\ events' = commit.rows
                    /\ resp' = [resp EXCEPT ![p] = commit.resp]
           ELSE /\ resp' = [resp EXCEPT ![p] = check]
                /\ UNCHANGED events
    /\ UNCHANGED <<releases, pc, req>>

\* StatusAPI.post up to its existence query (lines 32-67).
postCheck(p, form) ==
    /\ pc[p] = "idle"
    /\ LET check == PostCheck(events, form)
       IN  IF check.kind = "proceed"
           THEN /\ pc' = [pc EXCEPT ![p] = "commit"]
                /\ req' = [req EXCEPT ![p] = check.row]
                /\ resp' = [resp EXCEPT ![p] = NoResponse]
           ELSE /\ resp' = [resp EXCEPT ![p] = check]
                /\ UNCHANGED <<pc, req>>
    /\ UNCHANGED <<events, releases>>

\* StatusAPI.post from db.session.add to its response (lines 70-75).
postCommit(p) ==
    /\ pc[p] = "commit"
    /\ LET commit == PostCommit(events, req[p])
       IN  /\ events' = commit.rows
           /\ resp' = [resp EXCEPT ![p] = commit.resp]
    /\ pc' = [pc EXCEPT ![p] = "idle"]
    /\ req' = [req EXCEPT ![p] = None]
    /\ UNCHANGED releases

\* A GET that removes the rows it has reported.
getConsuming(p, releaseName) ==
    /\ pc[p] = "idle"
    /\ resp' = [resp EXCEPT ![p] = GetResponse(events, releases, releaseName)]
    /\ events' = SelectSeq(events, LAMBDA r : r.name # releaseName)
    /\ UNCHANGED <<releases, pc, req>>

\* StatusAPI.get.
get(p, releaseName) ==
    /\ pc[p] = "idle"
    /\ resp' = [resp EXCEPT ![p] = GetResponse(events, releases, releaseName)]
    /\ UNCHANGED <<events, releases, pc, req>>

(***************************************************************************)
(* The requests of each specification.                                     *)
(***************************************************************************)
Names == {R1, R2}

\* group, platform, results, chunkTotal
FormsOf(names, eventNames, payloads) ==
    {Form(n, e, pl[1], pl[2], pl[3], pl[4], {}) :
        n \in names, e \in eventNames, pl \in payloads}

\* Status: one release and three event names.  The two chunk names carry,
\* per group, the platforms and chunk totals its reducer reads; the name that
\* contains "complete" carries no chunk fields.
ChunkEventNames == {"e1", "e2"}

ChunkPayloads ==
    ({"repack", "update_verify"} \X Range(DeclaredPlatforms) \X {0} \X (1..MaxChunkTotal))
    \cup ({"repack", "update_verify"} \X {"linux"} \X {0} \X {0})
    \cup ({"repack", "update_verify"} \X {None} \X {0} \X {1})
    \cup ({"build"} \X (Range(DeclaredPlatforms) \cup {None}) \X {0} \X {0})
    \cup ({"release", "tag"} \X {None} \X {0} \X {0})

CompletePayloads ==
    ({"repack", "update_verify"} \X (Range(DeclaredPlatforms) \cup {None}) \X {0} \X {0})
    \cup ({"release"} \X {None} \X {0} \X {0})

StatusForms ==
    FormsOf({R1}, ChunkEventNames, ChunkPayloads)
    \cup FormsOf({R1}, {"e_complete"}, CompletePayloads)

\* Ingestion: two releases, two event names, two payloads, and two forms that
\* leave a required field out.
IngestEventNames == {"e1", "e2"}

IngestPayloads == {<<"build", "linux", 0, 0>>, <<"repack", "win32", 1, 1>>}

MalformedForms ==
    {Form(R1, "e1", "build", "linux", 0, 0, absent) :
        absent \in {{"group"}, {"event_name"}}}

IngestForms == FormsOf(Names, IngestEventNames, IngestPayloads) \cup MalformedForms

\* Concurrent ingestion: two keys, two payloads.
ConcurrentForms == FormsOf({R1}, IngestEventNames, IngestPayloads)

\* Stages: every group on one declared platform, build events with every chunk
\* total on both, under a plain and a "postrelease" event name, and one event
\* of a second release.
StageGroups ==
    {"tag", "build", "repack", "update", "releasetest", "update_verify",
     "release", "postrelease", None}

StageEventNames == {"e1", "postrelease"}

StagePayloads ==
    (StageGroups \X {"linux"} \X {0} \X {1})
    \cup ({"build"} \X Range(DeclaredPlatforms) \X {0} \X (0..MaxChunkTotal))

OtherReleasePayloads ==
    {"tag", "update", "releasetest", "release"} \X {"linux"} \X {0} \X {1}

StageForms ==
    FormsOf({R1}, StageEventNames, StagePayloads)
    \cup FormsOf({R2}, {"e1"}, OtherReleasePayloads)

\* Arrival order: three chunk events of one release in the two chunked groups,
\* with every chunk total on one platform and one total on the other.
OrderEventNames == {"e1", "e2", "e3"}

OrderPayloads ==
    ({"repack", "update_verify"} \X {"linux"} \X {0} \X (1..MaxChunkTotal))
    \cup ({"repack", "update_verify"} \X {"win32"} \X {0} \X {1})

OrderForms == FormsOf({R1}, OrderEventNames, OrderPayloads)

(***************************************************************************)
(* Specifications.                                                         *)
(***************************************************************************)
\* One client, one request at a time, over the status requests.
Next ==
    \/ \E form \in StatusForms : post(Client, form)
    \/ \E releaseName \in Names : get(Client, releaseName)

Spec == Init /\ [][Next]_vars

\* One client, one request at a time, over the ingestion requests.
NextIngest ==
    \/ \E form \in IngestForms : post(Client, form)
    \/ \E releaseName \in Names : get(Client, releaseName)

SpecIngest == Init /\ [][NextIngest]_vars

\* Two clients whose POSTs interleave between the existence query and the commit.
NextConcurrent ==
    \E p \in Procs :
        \/ \E form \in ConcurrentForms : postCheck(p, form)
        \/ postCommit(p)

SpecConcurrent == Init /\ [][NextConcurrent]_vars

\* One client, one request at a time, over the stage requests.
NextStages ==
    \/ \E form \in StageForms : post(Client, form)
    \/ \E releaseName \in Names : get(Client, releaseName)

SpecStages == Init /\ [][NextStages]_vars

\* One client, one request at a time, over the arrival-order requests.
NextOrder ==
    \/ \E form \in OrderForms : post(Client, form)
    \/ \E releaseName \in Names : get(Client, releaseName)

SpecOrder == Init /\ [][NextOrder]_vars

(***************************************************************************)
(* Vocabulary of the properties.  These read the table and the last        *)
(* response directly and use none of the handlers' own tests.              *)
(***************************************************************************)
\* A row with this (release name, event_name) pair is stored.
PairStored(name, event_name) ==
    \E i \in DOMAIN events :
        events[i].name = name /\ events[i].event_name = event_name

\* The release has at least one event, of any group.
HasEvents(name) == \E i \in DOMAIN events : events[i].name = name

\* At most one stored event per (release name, event_name) pair.
UniquePairs ==
    \A i, j \in DOMAIN events :
        (events[i].name = events[j].name
            /\ events[i].event_name = events[j].event_name) => i = j

\* The client's last request was a GET that returned (the table is as that GET saw it).
Returned == resp[Client].kind = "get"

\* The client's last request was a GET, returned or failed.
Asked == resp[Client].kind \in {"get", "get_raise"}

\* The last GET returned a status report.
Reported == Returned /\ resp[Client].status.kind = "report"

Report == resp[Client].status

Declared == Range(releases[resp[Client].release])

\* The stored events of the asked release in a group, on a platform.
EventsOf(group, platform) ==
    SelectSeq(events, LAMBDA r : /\ r.name = resp[Client].release
                                 /\ r.group = group
                                 /\ r.platform = platform)

\* Those whose name does not contain "complete" (the chunk events), and the others.
ChunksOf(group, platform) ==
    SelectSeq(EventsOf(group, platform), LAMBDA r : r.event_name \notin CompleteNames)

CompletesOf(group, platform) ==
    SelectSeq(EventsOf(group, platform), LAMBDA r : r.event_name \in CompleteNames)

\* The report's platforms map of the stage that reduces a group.
PlatformsOf(group) ==
    CASE group = "build" -> Report.build.platforms
      [] group = "repack" -> Report.repack.platforms
      [] group = "update_verify" -> Report.release.platforms

(***************************************************************************)
(* C1.  After any sequence of POSTs the table holds at most one event per  *)
(* (release name, event_name) pair, and a POST whose pair is already       *)
(* stored is answered 400 "already exists" and leaves the table, the       *)
(* stored event included, exactly as it was.                               *)
(***************************************************************************)
C1_DuplicateRejected ==
    /\ []UniquePairs
    /\ [][\A form \in IngestForms :
            (/\ form.absent = {}
             /\ PairStored(form.name, form.event_name)
             /\ post(Client, form))
            => /\ events' = events
               /\ resp'[Client].kind = "exists"
               /\ resp'[Client].code = 400]_vars

\* A duplicate POST was rejected while its pair is stored.
C1_Witness ==
    /\ resp[Client].kind = "exists"
    /\ PairStored(resp[Client].name, resp[Client].event_name)
    /\ Len(events) >= 2

(***************************************************************************)
(* C2.  Two POSTs of one pair that run concurrently end with exactly one   *)
(* accepted and stored once and the other rejected: no POST of a           *)
(* well-formed form ends other than accepted (200) or rejected (400        *)
(* "already exists"), and no pair is stored twice.                         *)
(***************************************************************************)
C2_OneAcceptedOneRejected ==
    /\ UniquePairs
    /\ \A p \in Procs : resp[p].kind \in {"none", "added", "exists"}
    /\ \A p \in Procs :
          resp[p].kind = "added" => PairStored(resp[p].name, resp[p].event_name)

\* Every event of the asked release in a chunked group names a declared platform.
PlatformsDeclared ==
    \A i \in DOMAIN events :
        (events[i].name = resp[Client].release
            /\ events[i].group \in {"build", "repack", "update_verify"})
        => events[i].platform \in Declared

\* The sum of the chunk totals of a platforms map.
RECURSIVE TotalSum(_, _)
TotalSum(platforms, keys) ==
    IF keys = {} THEN 0
    ELSE LET k == CHOOSE x \in keys : TRUE
         IN  platforms[k].chunks.total + TotalSum(platforms, keys \ {k})

(***************************************************************************)
(* C3.  A zero chunk total never fails the status computation: with every  *)
(* platform declared, a GET of a release that has events returns a report  *)
(* (whatever the chunk totals, zero included); in it a platform whose      *)
(* chunk events all declare chunkTotal 0 has progress 0.00, and the repack *)
(* and release stages have progress 0.00 when their chunk totals sum to    *)
(* zero.                                                                   *)
(***************************************************************************)
C3_ZeroTotalNeverFails ==
    (Asked /\ resp[Client].release \in DOMAIN releases /\ PlatformsDeclared)
    => /\ Returned
       /\ Reported =>
            /\ \A group \in {"repack", "update_verify"} : \A platform \in Declared :
                  (\A i \in DOMAIN ChunksOf(group, platform) :
                        ChunksOf(group, platform)[i].chunkTotal = 0)
                  => PlatformsOf(group)[platform].progress = 0
            /\ TotalSum(Report.repack.platforms, Declared) = 0
                  => Report.repack.progress = 0
            /\ TotalSum(Report.release.platforms, Declared) = 0
                  => Report.release.progress = 0

(***************************************************************************)
(* C4.  In the repack stage and in update_verify (reported under release), *)
(* a declared platform that has received N >= 1 chunk events, each         *)
(* declaring chunkTotal = N, and no "complete" event, is reported with     *)
(* chunks.num = chunks.total = N, progress 1.00 and complete = true.       *)
(***************************************************************************)
C4_AllChunksComplete ==
    Reported =>
        \A group \in {"repack", "update_verify"} : \A platform \in Declared :
            LET chunks == ChunksOf(group, platform)
                N == Len(chunks)
            IN  (/\ N >= 1
                 /\ \A i \in DOMAIN chunks : chunks[i].chunkTotal = N
                 /\ CompletesOf(group, platform) = <<>>)
                => PlatformsOf(group)[platform] =
                     [complete |-> TRUE, chunks |-> [num |-> N, total |-> N],
                      progress |-> 100]

(***************************************************************************)
(* C5.  In repack and update_verify, a declared platform with no chunk     *)
(* event and one event whose name contains "complete" is reported          *)
(* complete = true with progress 1.00.                                     *)
(***************************************************************************)
C5_CompleteEventFullProgress ==
    Reported =>
        \A group \in {"repack", "update_verify"} : \A platform \in Declared :
            (ChunksOf(group, platform) = <<>>
                /\ Len(CompletesOf(group, platform)) = 1)
            => /\ PlatformsOf(group)[platform].complete
               /\ PlatformsOf(group)[platform].progress = 100

(***************************************************************************)
(* C6.  In every report the platforms map of build, repack and release has *)
(* exactly the declared platforms, and a declared platform with no event   *)
(* in the stage's group is {complete: false, chunks: {num: 0, total: 0},   *)
(* progress: 0.00}.                                                        *)
(***************************************************************************)
C6_DeclaredPlatformsReported ==
    Reported =>
        \A group \in {"build", "repack", "update_verify"} :
            /\ DOMAIN PlatformsOf(group) = Declared
            /\ \A platform \in Declared :
                  EventsOf(group, platform) = <<>>
                  => PlatformsOf(group)[platform] =
                       [complete |-> FALSE, chunks |-> [num |-> 0, total |-> 0],
                        progress |-> 0]

\* A report in which, in each chunked stage, one declared platform has events
\* and the other has none.
C6_Witness ==
    /\ Reported
    /\ \A group \in {"build", "repack", "update_verify"} :
          /\ EventsOf(group, "linux") # <<>>
          /\ EventsOf(group, "win32") = <<>>
          /\ PlatformsOf(group)["win32"].chunks.total = 0

(***************************************************************************)
(* C7.  An event of a chunked group whose platform is not declared (null   *)
(* included) is ignored: the GET returns, and what it returns is the       *)
(* status computed without the events of undeclared platforms.             *)
(***************************************************************************)
C7_UndeclaredIgnored ==
    LET kept == SelectSeq(events,
                    LAMBDA r : r.group \in {"build", "repack", "update_verify"}
                               => r.platform \in Range(DeclaredPlatforms))
        without == getStatus(kept, releases, R1)
    IN  (Asked /\ resp[Client].release = R1 /\ kept # events
            /\ without.kind = "report")
        => /\ Returned
           /\ Report = without

(***************************************************************************)
(* C8.  In every report every stage progress and every platform progress   *)
(* lies in [0, 1], and no platform's chunks.num exceeds its chunks.total.  *)
(***************************************************************************)
C8_ProgressInUnitInterval ==
    Reported =>
        /\ \A stage \in {Report.tag, Report.build, Report.repack, Report.update,
                         Report.releasetest, Report.release, Report.postrelease} :
              stage.progress \in 0..100
        /\ \A group \in {"build", "repack", "update_verify"} :
              \A platform \in Declared :
                  /\ PlatformsOf(group)[platform].progress \in 0..100
                  /\ PlatformsOf(group)[platform].chunks.num
                        <= PlatformsOf(group)[platform].chunks.total

(***************************************************************************)
(* C9.  getStatus returns NotFound exactly when the table holds no event   *)
(* of the release: a GET that returns carries status None if and only if   *)
(* the release has no event, and a GET that fails has events to fail on.   *)
(***************************************************************************)
C9_NotFoundIffNoEvents ==
    /\ Returned =>
          (resp[Client].status.kind = "none" <=> ~HasEvents(resp[Client].release))
    /\ resp[Client].kind = "get_raise" => HasEvents(resp[Client].release)

\* NotFound for one release while the table holds events of another, after
\* both releases have been reported on.
C9_Witness ==
    /\ Returned
    /\ resp[Client].status.kind = "none"
    /\ events # <<>>

(***************************************************************************)
(* C10.  The release stage is complete if and only if the release has an   *)
(* event in the release group, whatever the update_verify chunk counts.    *)
(***************************************************************************)
C10_ReleaseCompleteIffReleaseEvent ==
    Reported =>
        (Report.release.complete
            <=> \E i \in DOMAIN events :
                    /\ events[i].name = resp[Client].release
                    /\ events[i].group = "release")

\* The release stage complete with update_verify chunk progress below 1.00.
C10_Witness ==
    /\ Reported
    /\ Report.release.complete
    /\ Report.release.progress \in 1..99

C12_AppendOnly ==
    [][/\ \A i \in DOMAIN events : \E j \in DOMAIN events' : events'[j] = events[i]
       /\ Len(events') = Len(events) + (IF resp'[Client].kind = "added"
                                           /\ resp'[Client] # resp[Client]
                                        THEN 1 ELSE 0)
       /\ \A form \in IngestForms :
             (post(Client, form) /\ resp'[Client].kind = "added")
             => /\ Len(events') = Len(events) + 1
                /\ events'[Len(events')].name = form.name
                /\ events'[Len(events')].event_name = form.event_name
                /\ events'[Len(events')].group = form.group
                /\ events'[Len(events')].platform = form.platform
                /\ events'[Len(events')].chunkTotal = form.chunkTotal
                /\ events'[Len(events')].results = form.results]_vars

\* An accepted POST on a table that already held events of both releases.
C12_Witness ==
    /\ resp[Client].kind = "added"
    /\ Len(events) >= 3
    /\ HasEvents(R1)
    /\ HasEvents(R2)

(***************************************************************************)
(* C13.  In a report, each of the stages tag, update and releasetest is    *)
(* complete with progress 1.00 when the table holds at least one event of  *)
(* the asked release in the stage's group, and incomplete with progress    *)
(* 0.00 otherwise, whatever events of other groups or releases it holds.   *)
(***************************************************************************)
SimpleStages == {"tag", "update", "releasetest"}

C13_SimpleStageIffEvent ==
    Reported =>
        \A stage \in SimpleStages :
            Report[stage] =
                IF \E i \in DOMAIN events :
                      /\ events[i].name = resp[Client].release
                      /\ events[i].group = stage
                THEN [complete |-> TRUE, progress |-> 100]
                ELSE [complete |-> FALSE, progress |-> 0]

\* tag is complete and update is not, while the other release has an update
\* event and the asked release an event of a group that is not a simple stage.
C13_Witness ==
    /\ Reported
    /\ Report.tag.complete
    /\ Report.tag.progress = 100
    /\ ~Report.update.complete
    /\ \E i \in DOMAIN events :
          events[i].name # resp[Client].release /\ events[i].group = "update"
    /\ \E i \in DOMAIN events :
          events[i].name = resp[Client].release /\ events[i].group \notin SimpleStages

(***************************************************************************)
(* C14.  In a report, a stage that is complete has every earlier stage of  *)
(* the pipeline tag, build, repack, update, releasetest, release,          *)
(* postrelease complete as well.                                           *)
(***************************************************************************)
Pipeline ==
    <<"tag", "build", "repack", "update", "releasetest", "release", "postrelease">>

C14_LaterImpliesEarlier ==
    Reported =>
        \A i, j \in DOMAIN Pipeline :
            (i < j /\ Report[Pipeline[j]].complete) => Report[Pipeline[i]].complete

(***************************************************************************)
(* C17.  In a report's build stage, a declared platform's entry is         *)
(* complete with chunks 1 of 1 and progress 1.00 when the table holds at   *)
(* least one build event of the asked release for that platform, whatever  *)
(* the chunk fields and the number of such events, and the zero entry      *)
(* otherwise.                                                              *)
(***************************************************************************)
C17_BuildEntryIffEvent ==
    Reported =>
        \A platform \in Declared :
            Report.build.platforms[platform] =
                IF EventsOf("build", platform) # <<>>
                THEN [complete |-> TRUE, chunks |-> [num |-> 1, total |-> 1],
                      progress |-> 100]
                ELSE [complete |-> FALSE, chunks |-> [num |-> 0, total |-> 0],
                      progress |-> 0]

\* Two build events of one platform with different chunk totals, one of them
\* the largest, none for another platform.
C17_Witness ==
    /\ Reported
    /\ \E platform, other \in Declared :
          /\ Len(EventsOf("build", platform)) = 2
          /\ EventsOf("build", platform)[1].chunkTotal = MaxChunkTotal
          /\ EventsOf("build", platform)[2].chunkTotal # MaxChunkTotal
          /\ EventsOf("build", other) = <<>>
          /\ Report.build.platforms[platform].complete
          /\ ~Report.build.platforms[other].complete

(***************************************************************************)
(* C15.  A report depends on the arrival order of the events only through  *)
(* which chunk event comes last per group and platform: the status of the  *)
(* same events in any other arrival order with the same last chunk event   *)
(* per group and platform is the report returned, the per-platform         *)
(* complete flags of the release stage included.                           *)
(***************************************************************************)
\* The arrival orders of the stored events.
Reorderings(rows) ==
    {t \in [DOMAIN rows -> Range(rows)] : Range(t) = Range(rows)}

\* The last chunk event of a group and platform in an arrival order, if any.
LastChunk(rows, group, platform) ==
    LET chunks == SelectSeq(rows, LAMBDA r : /\ r.name = resp[Client].release
                                             /\ r.group = group
                                             /\ r.platform = platform
                                             /\ r.event_name \notin CompleteNames)
    IN  IF chunks = <<>> THEN <<>> ELSE <<chunks[Len(chunks)]>>

SameLastChunks(a, b) ==
    \A group \in {"repack", "update_verify"} : \A platform \in Declared :
        LastChunk(a, group, platform) = LastChunk(b, group, platform)

C15_OrderOnlyThroughLastTotal ==
    Reported =>
        \A t \in Reorderings(events) :
            SameLastChunks(events, t)
            => getStatus(t, releases, resp[Client].release) = Report

(***************************************************************************)
(* C16.  In a report, the progress of the build stage and of the repack    *)
(* stage is the sum of the platforms' chunks.num over the sum of their     *)
(* chunks.total, rounded to two decimals, or 0.00 when that sum of totals  *)
(* is zero, and the stage is complete exactly when its progress is 1.00.   *)
(***************************************************************************)
RECURSIVE NumSum(_, _)
NumSum(platforms, keys) ==
    IF keys = {} THEN 0
    ELSE LET k == CHOOSE x \in keys : TRUE
         IN  platforms[k].chunks.num + NumSum(platforms, keys \ {k})

\* p hundredths is n/t rounded to two decimals: |p/100 - n/t| <= 1/200.
IsRounded(p, n, t) ==
    /\ 2 * t * p - t <= 200 * n
    /\ 200 * n <= 2 * t * p + t

C16_StageProgressIsRatio ==
    Reported =>
        \A stage \in {"build", "repack"} :
            LET n == NumSum(Report[stage].platforms, DOMAIN Report[stage].platforms)
                t == TotalSum(Report[stage].platforms, DOMAIN Report[stage].platforms)
            IN  /\ t = 0 => Report[stage].progress = 0
                /\ t > 0 => IsRounded(Report[stage].progress, n, t)
                /\ Report[stage].complete <=> (Report[stage].progress = 100)

\* Build has a zero sum of totals while repack stands at 2 of 3, reported as 0.67.
C16_Witness ==
    /\ Reported
    /\ TotalSum(Report.build.platforms, Declared) = 0
    /\ Report.build.progress = 0
    /\ ~Report.build.complete
    /\ NumSum(Report.repack.platforms, Declared) = 2
    /\ TotalSum(Report.repack.platforms, Declared) = 3
    /\ Report.repack.progress = 67
    /\ ~Report.repack.complete

(***************************************************************************)
(* C18.  In a report, a complete build stage has every declared platform's *)
(* build entry complete, and a complete repack stage has, for every        *)
(* declared platform, either a "complete" event or all of a positive       *)
(* number of chunks counted.                                               *)
(***************************************************************************)
C18_CompleteMeansAllReported ==
    Reported =>
        /\ Report.build.complete
              => \A platform \in Declared : Report.build.platforms[platform].complete
        /\ Report.repack.complete
              => \A platform \in Declared :
                    \/ CompletesOf("repack", platform) # <<>>
                    \/ /\ Report.repack.platforms[platform].chunks.total > 0
                       /\ Report.repack.platforms[platform].chunks.num
                             = Report.repack.platforms[platform].chunks.total

(***************************************************************************)
(* C19.  Stage completion is stable under ingestion: a stage that the      *)
(* status of a release reports complete is reported complete by the status *)
(* of that release after every further step.                               *)
(***************************************************************************)
\* What getStatus returns for the release with a record, on the table as it is.
StatusNow == getStatus(events, releases, R1)

C19_CompletionStable ==
    [][(StatusNow.kind = "report" /\ StatusNow'.kind = "report")
       => \A i \in DOMAIN Pipeline :
             StatusNow[Pipeline[i]].complete => StatusNow'[Pipeline[i]].complete]_vars

=============================================================================
